---- MODULE Spec2Model ----
(***************************************************************************)
(* The User model of sharebnb-backend (src/app.js, lines 86-305): the      *)
(* users table and the static methods authenticate, register, get, update  *)
(* and remove, each a sequence of parameterized queries on the table.      *)
(*                                                                         *)
(* A stored or submitted password is a record [kind, pw]: kind is          *)
(* "plain" for a caller's plaintext and "digest" for the output of         *)
(* bcrypt.hash, whose pw field is the plaintext the digest was made from   *)
(* (bcrypt is taken to be collision free; a digest stands for the digests  *)
(* of its plaintext under every salt).                                     *)
(***************************************************************************)
EXTENDS Integers, Sequences, FiniteSets, TLC

\* ---------------------------------------------------------------- bounds
MaxId == 2        \* ids the users id sequence hands out before the model stops registering
NumCalls == 2     \* register calls that may be in flight at once

\* ---------------------------------------------------------------- inputs
Usernames == {"a", "b"}
Passwords == {"", "p"}
FirstNames == {"f1"}
LastNames == {"l1"}
Emails == {"e1"}
Calls == 1..NumCalls
Ids == 1..MaxId

VARIABLES
    users,          \* the users table: a set of rows
    nextId,         \* the next value of the users id sequence
    pending,        \* per register call: its arguments between its two queries
    listings,       \* the listings table (written by other modules)
    bookings,       \* the bookings table (written by other modules)
    conversations,  \* the conversations table (written by other modules)
    observed,       \* the methods whose calls are recorded in `last`
    last            \* the last call that returned or threw, when it is one of an
                    \* observed method: its arguments (of an update's data, the
                    \* keys) and its outcome

vars == <<users, nextId, pending, listings, bookings, conversations, observed, last>>
related == <<listings, bookings, conversations>>

\* ---------------------------------------------------------------- values
Plain(pw) == [kind |-> "plain", pw |-> pw]

NoRes == [none |-> TRUE]
NoArgs == [username |-> "-", password |-> "-", id |-> 0, keys |-> <<>>]

Outcome(op, args, err, msg, res) ==
    [op |-> op, username |-> args.username, password |-> args.password,
     id |-> args.id, keys |-> args.keys, err |-> err, msg |-> msg, res |-> res]

Idle == Outcome("none", NoArgs, "none", <<>>, NoRes)
Methods == {"authenticate", "register", "get", "update", "remove"}

\* what `last` becomes when a call ends in outcome o
Record(o) == IF o.op \in observed THEN o ELSE Idle

\* `delete obj.field`
DeleteField(obj, f) == [k \in DOMAIN obj \ {f} |-> obj[k]]

\* ---------------------------------------------------------------- bcrypt
\* bcrypt.hash(password, BCRYPT_WORK_FACTOR)
bcrypt_hash(pw) == [kind |-> "digest", pw |-> pw]

\* bcrypt.compare(password, user.password): false for a string that is no digest
bcrypt_compare(password, stored) == stored.kind = "digest" /\ stored.pw = password

\* ---------------------------------------------------------------- authenticate
\* the row as the SELECT of authenticate projects it
authenticateRow(r) ==
    [id |-> r.id, username |-> r.username, password |-> r.password,
     firstName |-> r.first_name, lastName |-> r.last_name, email |-> r.email]

UnauthorizedMsg == <<"Invalid username/password">>

\* authenticateOutcome with a "not found" of its own for an unknown username
authenticateOutcomeDistinct(args, found, user) ==
    IF ~found
    THEN Outcome("authenticate", args, "NotFoundError", <<"No user: ", args.username>>, NoRes)
    ELSE IF bcrypt_compare(args.password, user.password)
         THEN Outcome("authenticate", args, "none", <<>>, DeleteField(user, "password"))
         ELSE Outcome("authenticate", args, "UnauthorizedError", UnauthorizedMsg, NoRes)

\* authenticate after its query: `found` says whether rows[0] exists, `user` is rows[0]
authenticateOutcome(args, found, user) ==
    IF found /\ bcrypt_compare(args.password, user.password)
    THEN Outcome("authenticate", args, "none", <<>>, DeleteField(user, "password"))
    ELSE Outcome("authenticate", args, "UnauthorizedError", UnauthorizedMsg, NoRes)

\* rows of `tbl` WHERE username = $1
byUsername(tbl, username) == {r \in tbl : r.username = username}

\* the outcomes authenticate can have on table `tbl`: rows[0] is any matching row,
\* the query having no ORDER BY
authenticateOutcomes(tbl, username, password) ==
    LET args == [NoArgs EXCEPT !.username = username, !.password = password]
        rows == byUsername(tbl, username)
    IN  IF rows = {}
        THEN {authenticateOutcome(args, FALSE, NoRes)}
        ELSE {authenticateOutcome(args, TRUE, authenticateRow(r)) : r \in rows}

authenticate(username, password) ==
    /\ \E o \in authenticateOutcomes(users, username, password) : last' = Record(o)
    /\ UNCHANGED <<users, nextId, pending, related, observed>>

\* ---------------------------------------------------------------- register
\* isDuplicate with the comparison off by one
isDuplicateOffByOne(rows) == Cardinality(rows) > 1

\* `duplicateCheck.rows.length > 0`
isDuplicate(rows) == Cardinality(rows) > 0

registerArgs(username, password, firstName, lastName, email) ==
    [username |-> username, password |-> password, firstName |-> firstName,
     lastName |-> lastName, email |-> email]

NoCall == [username |-> "-", password |-> "-", firstName |-> "-",
           lastName |-> "-", email |-> "-"]

InFlight == {c \in Calls : pending[c] # NoCall}

\* INSERT INTO users: the table takes the row whatever rows it holds, the
\* duplicate check of register being the one guard of the usernames
insertUser(tbl, row) == tbl \cup {row}

\* register up to its first await: the duplicate check, and the throw on a
\* duplicate. A call starts only while the id sequence has an id left for it.
registerCheck(c, a) ==
    /\ pending[c] = NoCall
    /\ nextId + Cardinality(InFlight) <= MaxId
    /\ IF isDuplicate(byUsername(users, a.username))
       THEN /\ last' = Record(Outcome("register",
                                      [NoArgs EXCEPT !.username = a.username],
                                      "BadRequestError",
                                      <<"Duplicate username: ", a.username>>, NoRes))
            /\ UNCHANGED pending
       ELSE /\ pending' = [pending EXCEPT ![c] = a]
            /\ UNCHANGED last
    /\ UNCHANGED <<users, nextId, related, observed>>

\* register from the hash to its return: the INSERT ... RETURNING
registerInsert(c) ==
    /\ pending[c] # NoCall
    /\ LET a == pending[c]
           hashedPassword == bcrypt_hash(a.password)
           row == [id |-> nextId, username |-> a.username, password |-> hashedPassword,
                   first_name |-> a.firstName, last_name |-> a.lastName, email |-> a.email]
       IN  /\ users' = insertUser(users, row)
           /\ nextId' = nextId + 1
           /\ last' = Record(Outcome("register",
                                     [NoArgs EXCEPT !.username = a.username],
                                     "none", <<>>,
                                     [id |-> row.id, username |-> row.username,
                                      firstName |-> row.first_name,
                                      lastName |-> row.last_name, email |-> row.email]))
    /\ pending' = [pending EXCEPT ![c] = NoCall]
    /\ UNCHANGED <<related, observed>>

\* ---------------------------------------------------------------- get
RECURSIVE orderById(_)
\* ORDER BY id, of rows with distinct ids
orderById(rows) ==
    IF rows = {} THEN <<>>
    ELSE LET first == CHOOSE r \in rows : \A s \in rows : r.id <= s.id
         IN  <<first>> \o orderById(rows \ {first})

\* SELECT id, name, ... FROM listings WHERE owner_id = $1 ORDER BY id
listingsQuery(tbl, id) ==
    orderById({[id |-> l.id, name |-> l.name] : l \in {l \in tbl : l.owner_id = id}})

\* SELECT id, owner_id, renter_id, listing_id, created_at FROM bookings
\* WHERE renter_id = $1 ORDER BY id
bookingsQuery(tbl, id) == orderById({b \in tbl : b.renter_id = id})

\* conversationsQuery without the renter's side
conversationsQueryOwnerOnly(tbl, id) == orderById({c \in tbl : c.owner_id = id})

\* SELECT id, renter_id, owner_id, listing_id FROM conversations
\* WHERE owner_id = $1 OR renter_id = $1 ORDER BY id
conversationsQuery(tbl, id) ==
    orderById({c \in tbl : c.owner_id = id \/ c.renter_id = id})

\* the row as the first SELECT of get projects it: the unquoted aliases
\* firstName and lastName are folded to lower case by the store
getRow(r) ==
    [id |-> r.id, username |-> r.username, firstname |-> r.first_name,
     lastname |-> r.last_name, email |-> r.email]

\* `user.field = value`
SetField(obj, f, v) == [k \in DOMAIN obj \cup {f} |-> IF k = f THEN v ELSE obj[k]]

getOutcomes(tbl, username) ==
    LET args == [NoArgs EXCEPT !.username = username]
        rows == byUsername(tbl, username)
    IN  IF rows = {}
        THEN {Outcome("get", args, "NotFoundError", <<"User not found: ", username>>, NoRes)}
        ELSE {LET user == getRow(r)
                  u1 == SetField(user, "listings", listingsQuery(listings, user.id))
                  u2 == SetField(u1, "bookings", bookingsQuery(bookings, user.id))
                  u3 == SetField(u2, "conversations",
                                 conversationsQuery(conversations, user.id))
              IN  Outcome("get", args, "none", <<>>, u3) : r \in rows}

get(username) ==
    /\ \E o \in getOutcomes(users, username) : last' = Record(o)
    /\ UNCHANGED <<users, nextId, pending, related, observed>>

\* ---------------------------------------------------------------- update
\* a JavaScript value used as a condition: undefined and "" are falsy
Truthy(v) == v.pw # ""

\* update's data: a sequence of <<key, value>> with distinct keys, in insertion
\* order. The keys drawn, in the order the callers write them: one the builder
\* translates, the one update hashes, and one of a column update is not meant
\* to write.
Keys == <<"firstName", "password", "username">>
ValuesOf(k) ==
    CASE k = "firstName" -> FirstNames
      [] k = "password" -> {Plain(p) : p \in Passwords}
      [] k = "username" -> Usernames

RECURSIVE DataFrom(_)
\* the data whose keys are among Keys[i], Keys[i+1], ...
DataFrom(i) ==
    IF i > Len(Keys) THEN {<<>>}
    ELSE DataFrom(i + 1)
           \cup {<<<<Keys[i], v>>>> \o d : v \in ValuesOf(Keys[i]), d \in DataFrom(i + 1)}

Data == DataFrom(1)

\* sqlForPartialUpdate(dataToUpdate, jsToSql) of helpers/sql
jsToSql == [firstName |-> "first_name", lastName |-> "last_name"]

sqlForPartialUpdate(dataToUpdate, map) ==
    IF Len(dataToUpdate) = 0
    THEN [err |-> "ValidationError", setCols |-> <<>>, values |-> <<>>]
    ELSE [err |-> "none",
          setCols |-> [i \in 1..Len(dataToUpdate) |->
                         <<IF dataToUpdate[i][1] \in DOMAIN map
                           THEN map[dataToUpdate[i][1]]
                           ELSE dataToUpdate[i][1], i>>],
          values |-> [i \in 1..Len(dataToUpdate) |-> dataToUpdate[i][2]]]

\* `if (data.password) data.password = await bcrypt.hash(data.password, ...)`
hashPassword(data) ==
    [i \in 1..Len(data) |->
        IF data[i][1] = "password" /\ Truthy(data[i][2])
        THEN <<"password", bcrypt_hash(data[i][2].pw)>>
        ELSE data[i]]

\* a row after SET setCols with the bound parameters
setColumns(r, setCols, params) ==
    [c \in DOMAIN r |->
        IF \E i \in 1..Len(setCols) : setCols[i][1] = c
        THEN params[setCols[CHOOSE i \in 1..Len(setCols) : setCols[i][1] = c][2]]
        ELSE r[c]]

\* the UPDATE ... RETURNING of update and the result made of it: the outcome
\* and the table after it. Alone, it is update with the builder's error dropped.
updateQuerySwallow(args, built, tbl) ==
    LET idVarIdx == Len(built.values) + 1
        params == built.values \o <<args.id>>
        matched == {r \in tbl : r.id = params[idVarIdx]}
        updated == {setColumns(r, built.setCols, params) : r \in matched}
    IN  IF updated = {}
        THEN [users |-> tbl,
              last |-> Outcome("update", args, "NotFoundError",
                               <<"No user: ", ToString(args.id)>>, NoRes)]
        ELSE LET user == CHOOSE r \in updated : TRUE
             IN  [users |-> (tbl \ matched) \cup updated,
                  last |-> Outcome("update", args, "none", <<>>,
                                   DeleteField([id |-> user.id, firstName |-> user.first_name,
                                                lastName |-> user.last_name,
                                                email |-> user.email], "password"))]

\* update from the builder's return: its error propagates, no query made
updateQuery(args, built, tbl) ==
    IF built.err # "none"
    THEN [users |-> tbl, last |-> Outcome("update", args, built.err, <<>>, NoRes)]
    ELSE updateQuerySwallow(args, built, tbl)

update(id, data) ==
    LET args == [NoArgs EXCEPT !.id = id, !.keys = [i \in 1..Len(data) |-> data[i][1]]]
        built == sqlForPartialUpdate(hashPassword(data), jsToSql)
        done == updateQuery(args, built, users)
    IN  /\ users' = done.users
        /\ last' = Record(done.last)
        /\ UNCHANGED <<nextId, pending, related, observed>>

\* ---------------------------------------------------------------- remove
remove(id) ==
    LET args == [NoArgs EXCEPT !.id = id]
        deleted == {r \in users : r.id = id}
    IN  /\ users' = users \ deleted
        /\ last' = Record(IF deleted = {}
                          THEN Outcome("remove", args, "NotFoundError",
                                       <<"No user: ", ToString(id)>>, NoRes)
                          ELSE Outcome("remove", args, "none", <<>>, NoRes))
        /\ UNCHANGED <<nextId, pending, related, observed>>

\* ---------------------------------------------------------------- related tables
Listing(id, owner) == [id |-> id, owner_id |-> owner, name |-> "n"]
Booking(id, owner, renter, listing) ==
    [id |-> id, owner_id |-> owner, renter_id |-> renter, listing_id |-> listing]
Conversation(id, renter, owner, listing) ==
    [id |-> id, renter_id |-> renter, owner_id |-> owner, listing_id |-> listing]

\* what the other modules have stored; user 4 stands for the users this model
\* never registers
StoredListings == {Listing(1, 1), Listing(2, 2), Listing(3, 1), Listing(4, 4)}
StoredBookings == {Booking(1, 2, 1, 2), Booking(2, 1, 4, 1), Booking(3, 1, 4, 3)}
StoredConversations ==
    {Conversation(1, 2, 4, 4), Conversation(2, 4, 4, 4), Conversation(3, 4, 2, 2)}

\* ---------------------------------------------------------------- specification
\* the state after construction, the calls of the methods in `obs` observed
InitObserving(obs) ==
    /\ users = {}
    /\ nextId = 1
    /\ pending = [c \in Calls |-> NoCall]
    /\ listings = StoredListings
    /\ bookings = StoredBookings
    /\ conversations = StoredConversations
    /\ observed = obs
    /\ last = Idle

Init == InitObserving(Methods)

Next ==
    \/ \E u \in Usernames, p \in Passwords : authenticate(u, p)
    \/ \E c \in Calls, u \in Usernames, p \in Passwords,
          f \in FirstNames, l \in LastNames, e \in Emails :
            registerCheck(c, registerArgs(u, p, f, l, e))
    \/ \E c \in Calls : registerInsert(c)
    \/ \E u \in Usernames : get(u)
    \/ \E id \in Ids, d \in Data : update(id, d)
    \/ \E id \in Ids : remove(id)

Spec == Init /\ [][Next]_vars

\* the same program, the calls of one method observed
SpecAuthenticate == InitObserving({"authenticate"}) /\ [][Next]_vars
SpecRegister == InitObserving({"register"}) /\ [][Next]_vars
SpecGet == InitObserving({"get"}) /\ [][Next]_vars
SpecUpdate == InitObserving({"update"}) /\ [][Next]_vars

\* ---------------------------------------------------------------- claims
Range(seq) == {seq[i] : i \in 1..Len(seq)}
AscendingById(seq) == \A i, j \in 1..Len(seq) : i < j => seq[i].id < seq[j].id
PublicFields == {"id", "username", "firstName", "lastName", "email"}

\* C1: in every state, for every stored row, authenticate with the row's
\* username and the password last set on it (by register or by update)
\* succeeds, and the record returned has exactly the fields id, username,
\* firstName, lastName and email: no password.
C1_AuthenticateLastSetPassword ==
    \A r \in users :
        \A o \in authenticateOutcomes(users, r.username, r.password.pw) :
            o.err = "none" /\ DOMAIN o.res = PublicFields

\* a password that is the password last set on no row of that username
\* (of every password, when the username is not registered)
WrongPassword(username, password) ==
    \A r \in byUsername(users, username) : r.password.pw # password

\* C2: authenticate with a wrong password for a registered username and
\* authenticate with a username that is not registered both throw
\* UnauthorizedError with the one message "Invalid username/password", and
\* no authenticate call changes the users table.
C2_AuthenticateFailsAlike ==
    /\ [](last.op = "authenticate" =>
            /\ WrongPassword(last.username, last.password) => last.err # "none"
            /\ last.err # "none" =>
                /\ last.err = "UnauthorizedError"
                /\ last.msg = UnauthorizedMsg
                /\ last.res = NoRes)
    /\ [][last'.op = "authenticate" => users' = users]_vars

\* C2's case: authenticate has thrown for a registered username, its password
\* hashed, and another password
C2_Witness ==
    /\ last.op = "authenticate"
    /\ last.err = "UnauthorizedError"
    /\ \E r \in users :
        /\ r.username = last.username
        /\ r.password.kind = "digest"
        /\ r.password.pw # last.password

\* C3: a register call that finds its username in the users table throws
\* BadRequestError and leaves the table as it was: no row added, none changed,
\* and no insert left to come.
C3_RegisterDuplicate ==
    [][\A c \in Calls, u \in Usernames, p \in Passwords,
          f \in FirstNames, l \in LastNames, e \in Emails :
            (registerCheck(c, registerArgs(u, p, f, l, e)) /\ byUsername(users, u) # {})
            => /\ last'.op = "register"
               /\ last'.username = u
               /\ last'.err = "BadRequestError"
               /\ users' = users
               /\ pending' = pending]_vars

\* C3's case: a register call has thrown on a username the table holds
C3_Witness ==
    /\ last.op = "register"
    /\ last.err = "BadRequestError"
    /\ byUsername(users, last.username) # {}

\* C4: an update whose data is the password alone, on an existing row and with
\* a password other than the row's, leaves the table such that authenticate
\* with the row's username succeeds with the new password and throws
\* UnauthorizedError with the old one.
C4_UpdatePassword ==
    [][\A r \in users, r2 \in users' :
        (/\ last'.op = "update"
         /\ last'.err = "none"
         /\ last'.keys = <<"password">>
         /\ last'.id = r.id
         /\ r2.id = r.id
         /\ r2.password.pw # r.password.pw)
        => /\ \A o \in authenticateOutcomes(users', r2.username, r2.password.pw) :
                o.err = "none"
           /\ \A o \in authenticateOutcomes(users', r2.username, r.password.pw) :
                o.err = "UnauthorizedError"]_vars

\* C5: update with empty data throws the builder's validation error for every
\* id, that of a stored row or not, and the users table is not touched.
C5_UpdateEmpty ==
    /\ []((last.op = "update" /\ last.keys = <<>>) =>
            (last.err = "ValidationError" /\ last.res = NoRes))
    /\ [][(last'.op = "update" /\ last'.keys = <<>>) => users' = users]_vars

\* C5's case: an update with empty data of the id of a stored row
C5_Witness ==
    /\ last.op = "update"
    /\ last.keys = <<>>
    /\ last.err = "ValidationError"
    /\ \E r \in users : r.id = last.id

\* C6: remove of an id with no row throws NotFoundError and leaves the users
\* table as it was; remove of a stored row's id deletes that row and no other,
\* and get of that row's username then throws NotFoundError.
C6_Remove ==
    [][\A id \in Ids :
        remove(id) =>
            IF \E r \in users : r.id = id
            THEN LET r == CHOOSE x \in users : x.id = id
                 IN  /\ last'.err = "none"
                     /\ users' = users \ {r}
                     /\ \A o \in getOutcomes(users', r.username) :
                            o.err = "NotFoundError"
            ELSE last'.err = "NotFoundError" /\ users' = users]_vars

\* C7: get of a registered username returns a user of that username with
\* listings the listings that user owns, bookings the bookings that user
\* rents, and conversations those in which that user is owner or renter, each
\* in ascending order of id; a user with no such rows gets empty sequences
\* and no error.
C7_GetAggregates ==
    last.op = "get" =>
        /\ byUsername(users, last.username) # {} => last.err = "none"
        /\ last.err = "none" =>
            LET user == last.res
            IN  /\ \E r \in users : r.id = user.id /\ r.username = last.username
                /\ user.username = last.username
                /\ {l.id : l \in Range(user.listings)}
                     = {l.id : l \in {x \in listings : x.owner_id = user.id}}
                /\ Len(user.listings)
                     = Cardinality({x \in listings : x.owner_id = user.id})
                /\ AscendingById(user.listings)
                /\ Range(user.bookings) = {b \in bookings : b.renter_id = user.id}
                /\ AscendingById(user.bookings)
                /\ Range(user.conversations)
                     = {c \in conversations : c.owner_id = user.id \/ c.renter_id = user.id}
                /\ AscendingById(user.conversations)

\* C7's case: get has returned a user who is the renter of one conversation
\* and the owner of another, and has no bookings
C7_Witness ==
    /\ last.op = "get"
    /\ last.err = "none"
    /\ Len(last.res.conversations) = 2
    /\ last.res.conversations[1].renter_id = last.res.id
    /\ last.res.conversations[2].owner_id = last.res.id
    /\ last.res.bookings = <<>>

\* C8: no two rows of the users table have the same username, whatever the
\* interleaving of the register calls' duplicate checks and inserts.
C8_UsernameUnique ==
    \A r1, r2 \in users : r1.username = r2.username => r1 = r2

\* C9: no update changes the id or the username of a stored row: the row of
\* each id is there after the update, under the username it had.
C9_UpdateKeepsIdentity ==
    [][last'.op = "update" =>
        \A r \in users : \E r2 \in users' : r2.id = r.id /\ r2.username = r.username]_vars

\* C10: the password of every stored row is a digest made by bcrypt.hash, never
\* the plaintext a caller passed, the empty string included.
C10_PasswordIsDigest ==
    \A r \in users : r.password.kind = "digest"

====
